---- MODULE Spec2Model ----
(***************************************************************************)
(* Model of RedBlackTree.cpp: an order-statistics red/black tree with      *)
(* insert (insertKey + fixupFrom + rotateWithParent), contains, rankOf,    *)
(* select and the destructor.                                              *)
(*                                                                         *)
(* Heap: `nodes` maps the address of every allocated Node to its fields.   *)
(* `new Node` returns an unused address; the model names the address of    *)
(* the node created for key k by k itself, and AllocFresh checks that this *)
(* address is unused whenever insertKey allocates.                         *)
(*                                                                         *)
(* Undefined behaviour (reading a field through a null pointer) is a       *)
(* nondeterministic choice between a segmentation fault and reading an     *)
(* arbitrary value.                                                        *)
(***************************************************************************)
EXTENDS Integers, FiniteSets, Sequences, TLC

\* ---- bounds of the model ----
MaxKey == 8         \* keys passed to insert are 1..MaxKey
MaxDup == 1         \* at most this many insert calls repeat a present key
MaxGarbage == 1     \* a read through a null pointer yields a value in 0..MaxGarbage
MaxTeardownKey == 5 \* trees handed to the destructor hold keys in 1..MaxTeardownKey

Keys == 1..MaxKey
Garbage == 0..MaxGarbage
Nil == 0
RED == "RED"
BLACK == "BLACK"

Segv == 0 - 1      \* marker: the read faulted

\* nodes, root : the heap of Node structs and RedBlackTree::root
\* pc          : "idle" (no call running), "fixup" (inside fixupFrom's loop),
\*               "crashed" (the call ended in a fault and never returned),
\*               "destroying" (inside the destructor's loop), "destroyed"
\* node        : fixupFrom's local `node`
\* ret         : what the last completed insert returned ("none" while running)
\* fault       : "none", "segv" or "throw"
\* ub          : the running (or last) insert read a field through a null pointer
\* freed       : the nodes the destructor has deleted
\* arg, wasIn, inserted, calls, lastCase, splits : history of the calls made
VARIABLES nodes, root, pc, node, ret, fault, ub, freed, arg, wasIn, inserted,
          calls, lastCase, splits
vars == <<nodes, root, pc, node, ret, fault, ub, freed, arg, wasIn, inserted,
          calls, lastCase, splits>>

\* ---- struct Node, as filled in by insertKey ----
\* new nodes created RED, as in the textbook algorithm
NewNodeColorRed == RED

NewNodeColor == BLACK

NewNode(key, prev) ==
  [key |-> key, color |-> NewNodeColor, left |-> Nil, right |-> Nil,
   parent |-> prev, size |-> 1]

\* ---- contains: standard tree search ----
RECURSIVE containsFrom(_, _, _)
containsFrom(h, curr, key) ==
  IF curr = Nil THEN FALSE
  ELSE IF key = h[curr].key THEN TRUE
  ELSE IF key < h[curr].key THEN containsFrom(h, h[curr].left, key)
  ELSE containsFrom(h, h[curr].right, key)

contains(key) == containsFrom(nodes, root, key)

\* ---- insertKey, step one: the descent, incrementing size on the way ----
RECURSIVE insertKeyDescend(_, _, _, _)
insertKeyDescend(h, curr, prev, key) ==
  IF curr = Nil THEN [h |-> h, prev |-> prev, found |-> FALSE]
  ELSE LET h1 == [h EXCEPT ![curr].size = @ + 1]
       IN IF key = h[curr].key THEN [h |-> h1, prev |-> curr, found |-> TRUE]
          ELSE IF key < h[curr].key
               THEN insertKeyDescend(h1, h[curr].left, curr, key)
               ELSE insertKeyDescend(h1, h[curr].right, curr, key)

\* ---- insertKey, step three: wire the new node into the tree ----
\* wireNode with the comparison lost: the new node always goes to the left.
wireNodeAlwaysLeft(h, r, prev, key, n) ==
  IF prev = Nil THEN [h |-> h, root |-> n]
  ELSE [h |-> [h EXCEPT ![prev].left = n], root |-> r]

wireNode(h, r, prev, key, n) ==
  IF prev = Nil THEN [h |-> h, root |-> n]
  ELSE IF key < h[prev].key THEN [h |-> [h EXCEPT ![prev].left = n], root |-> r]
  ELSE [h |-> [h EXCEPT ![prev].right = n], root |-> r]

\* ---- insertKey: node = Nil when the key was already present ----
insertKey(h, r, key) ==
  LET d == insertKeyDescend(h, r, Nil, key)
  IN IF d.found THEN [h |-> d.h, root |-> r, node |-> Nil]
     ELSE LET n  == key   \* address returned by new Node
              h1 == [a \in (DOMAIN d.h) \cup {n} |->
                       IF a = n THEN NewNode(key, d.prev) ELSE d.h[a]]
              w  == wireNode(h1, r, d.prev, key, n)
          IN [h |-> w.h, root |-> w.root, node |-> n]

\* ---- siblingOf ----
siblingOf(h, n) ==
  LET parent == h[n].parent
  IN IF parent = Nil THEN Nil
     ELSE IF n = h[parent].left THEN h[parent].right ELSE h[parent].left

\* ---- rotateWithParent ----
\* Step 1: local rotation of the node, its parent and the middle child.
rotateLocal(h, n) ==
  LET p == h[n].parent
  IN IF n = h[p].left
     THEN [h |-> [h EXCEPT ![n].right = p, ![p].left = h[n].right],
           child |-> h[n].right]
     ELSE [h |-> [h EXCEPT ![n].left = p, ![p].right = h[n].left],
           child |-> h[n].left]

\* Step 2: the grandparent (or the root pointer) now points at the node.
\* rotateRelink without the `root = node` update.
rotateRelinkKeepsRoot(h, r, n) ==
  LET p == h[n].parent
      g == h[p].parent
  IN IF g # Nil
     THEN IF h[g].left = p THEN [h |-> [h EXCEPT ![g].left = n], root |-> r]
          ELSE [h |-> [h EXCEPT ![g].right = n], root |-> r]
     ELSE [h |-> h, root |-> r]

rotateRelink(h, r, n) ==
  LET p == h[n].parent
      g == h[p].parent
  IN IF g # Nil
     THEN IF h[g].left = p THEN [h |-> [h EXCEPT ![g].left = n], root |-> r]
          ELSE [h |-> [h EXCEPT ![g].right = n], root |-> r]
     ELSE [h |-> h, root |-> n]

\* Step 3: parent pointers.
\* rotateParents without `oldParent->parent = node`.
rotateParentsForgetsOldParent(h, n, child) ==
  LET oldParent == h[n].parent
      h1 == IF child # Nil THEN [h EXCEPT ![child].parent = oldParent] ELSE h
  IN [h1 EXCEPT ![n].parent = h1[oldParent].parent]

rotateParents(h, n, child) ==
  LET oldParent == h[n].parent
      h1 == IF child # Nil THEN [h EXCEPT ![child].parent = oldParent] ELSE h
  IN [h1 EXCEPT ![n].parent = h1[oldParent].parent, ![oldParent].parent = n]

\* Values that node->left->size / node->right->size can evaluate to: the
\* field when the child exists, an arbitrary value when the pointer is null.
sizeReads(h, c) == IF c # Nil THEN {h[c].size} ELSE Garbage

\* Outcomes of rotateWithParent(node): "throw" (runtime_error), "segv" (the
\* null read faults) or "ok" with the heap and root after the rotation.
rotateWithParent(h, r, n) ==
  IF h[n].parent = Nil THEN {[status |-> "throw", h |-> h, root |-> r, ub |-> FALSE]}
  ELSE LET oldParent == h[n].parent
           s1 == rotateLocal(h, n)
           s2 == rotateRelink(s1.h, r, n)
           h3 == rotateParents(s2.h, n, s1.child)
           h4 == [h3 EXCEPT ![oldParent].size = h3[n].size]
           L  == h4[n].left
           R  == h4[n].right
       IN {[status |-> "ok", h |-> [h4 EXCEPT ![n].size = l + rr + 1], root |-> s2.root,
            ub |-> (L = Nil \/ R = Nil)] :
              <<l, rr>> \in sizeReads(h4, L) \X sizeReads(h4, R)}
          \cup (IF L = Nil \/ R = Nil
                THEN {[status |-> "segv", h |-> h4, root |-> s2.root, ub |-> TRUE]}
                ELSE {})

\* ---- fixupFrom: the recolourings ----
\* recolor2Node leaving the new node BLACK.
recolor2NodeStaysBlack(h, n) == h

recolor2Node(h, n) == [h EXCEPT ![n].color = RED]

recolor3NodeBlackParent(h, n) == [h EXCEPT ![n].color = RED]

\* split4Node as in the textbook, colouring the grandparent RED as well.
split4NodeRedGrandparent(h, n, parent, aunt) ==
  [h EXCEPT ![parent].color = BLACK, ![aunt].color = BLACK, ![n].color = RED,
            ![h[parent].parent].color = RED]

split4Node(h, n, parent, aunt) ==
  [h EXCEPT ![parent].color = BLACK, ![aunt].color = BLACK, ![n].color = RED]

recolorZigZag(h, grandparent) == [h EXCEPT ![grandparent].color = RED]

\* recolorZigZig without `parent->color = BLACK`.
recolorZigZigParentStaysRed(h, n, parent, grandparent) ==
  [h EXCEPT ![n].color = RED, ![grandparent].color = RED]

recolorZigZig(h, n, parent, grandparent) ==
  [h EXCEPT ![parent].color = BLACK, ![n].color = RED, ![grandparent].color = RED]

\* ---- fixupFrom: the case conditions of one loop iteration ----
is2Node(h, n) ==
  LET parent == h[n].parent
      sibling == siblingOf(h, n)
  IN h[parent].color = BLACK
     /\ (IF sibling = Nil THEN TRUE ELSE h[sibling].color = BLACK)

is3NodeBlackParent(h, n) ==
  LET parent == h[n].parent
      sibling == siblingOf(h, n)
  IN h[parent].color = BLACK
     /\ (IF sibling # Nil THEN h[sibling].color = RED ELSE FALSE)

is3NodeRedParent(h, n) ==
  LET parent == h[n].parent
      aunt == siblingOf(h, parent)
  IN h[parent].color = RED
     /\ (IF aunt = Nil THEN TRUE ELSE h[aunt].color = BLACK)

\* Values grandparent->left can evaluate to: the field, or - when grandparent
\* is null - a fault or an arbitrary pointer.
leftReads(h, g) == IF g # Nil THEN {h[g].left} ELSE {Segv, Nil} \cup DOMAIN h

\* (node == parent->left) != (parent == grandparent->left)
orientation(h, n) ==
  LET parent == h[n].parent
      grandparent == h[parent].parent
  IN {IF x = Segv THEN "segv"
      ELSE IF (n = h[parent].left) # (parent = x) THEN "zigzag" ELSE "zigzig" :
        x \in leftReads(h, grandparent)}

\* rotateWithParent(node); rotateWithParent(node); grandparent->color = RED
zigZag(h, r, n, grandparent) ==
  UNION {IF o1.status # "ok" THEN {o1}
         ELSE {IF o2.status # "ok" THEN [o2 EXCEPT !.ub = o1.ub \/ o2.ub]
               ELSE [status |-> "ok", h |-> recolorZigZag(o2.h, grandparent),
                     root |-> o2.root, ub |-> (o1.ub \/ o2.ub)] :
                 o2 \in rotateWithParent(o1.h, o1.root, n)} :
           o1 \in rotateWithParent(h, r, n)}

\* zigZig rotating the grandparent instead of the parent.
zigZigRotatesGrandparent(h, r, n, parent, grandparent) ==
  {IF o.status # "ok" THEN o
   ELSE [status |-> "ok", h |-> recolorZigZig(o.h, n, parent, grandparent),
         root |-> o.root, ub |-> o.ub] :
     o \in rotateWithParent(h, r, grandparent)}

\* rotateWithParent(parent); recolour parent, node, grandparent
zigZig(h, r, n, parent, grandparent) ==
  {IF o.status # "ok" THEN o
   ELSE [status |-> "ok", h |-> recolorZigZig(o.h, n, parent, grandparent),
         root |-> o.root, ub |-> o.ub] :
     o \in rotateWithParent(h, r, parent)}

redParentOutcomes(h, r, n, branch) ==
  LET parent == h[n].parent
      grandparent == h[parent].parent
  IN IF branch = "segv" THEN {[status |-> "segv", h |-> h, root |-> r, ub |-> TRUE]}
     ELSE IF branch = "zigzag" THEN zigZag(h, r, n, grandparent)
     ELSE zigZig(h, r, n, parent, grandparent)

\* ---- state machine ----
Init ==
  /\ nodes = <<>>
  /\ root = Nil
  /\ pc = "idle"
  /\ node = Nil
  /\ ret = "none"
  /\ fault = "none"
  /\ ub = FALSE
  /\ freed = {}
  /\ arg = Nil
  /\ wasIn = FALSE
  /\ inserted = {}
  /\ calls = 0
  /\ lastCase = "none"
  /\ splits = 0

dups == calls - Cardinality(inserted)

\* insert that reports every call as a new insertion.
InsertAlwaysTrue(key) ==
  /\ pc = "idle"
  /\ key \in inserted => dups < MaxDup
  /\ LET o == insertKey(nodes, root, key)
     IN /\ nodes' = o.h
        /\ root' = o.root
        /\ node' = o.node
        /\ pc' = IF o.node = Nil THEN "idle" ELSE "fixup"
        /\ ret' = IF o.node = Nil THEN "true" ELSE "none"
        /\ lastCase' = IF o.node = Nil THEN "duplicate" ELSE "none"
  /\ arg' = key
  /\ wasIn' = contains(key)
  /\ inserted' = inserted \cup {key}
  /\ calls' = calls + 1
  /\ splits' = 0
  /\ ub' = FALSE
  /\ UNCHANGED <<fault, freed>>

\* insert(key), up to the return of insertKey; returns false on a duplicate.
Insert(key) ==
  /\ pc = "idle"
  /\ key \in inserted => dups < MaxDup
  /\ LET o == insertKey(nodes, root, key)
     IN /\ nodes' = o.h
        /\ root' = o.root
        /\ node' = o.node
        /\ pc' = IF o.node = Nil THEN "idle" ELSE "fixup"
        /\ ret' = IF o.node = Nil THEN "false" ELSE "none"
        /\ lastCase' = IF o.node = Nil THEN "duplicate" ELSE "none"
  /\ arg' = key
  /\ wasIn' = contains(key)
  /\ inserted' = inserted \cup {key}
  /\ calls' = calls + 1
  /\ splits' = 0
  /\ ub' = FALSE
  /\ UNCHANGED <<fault, freed>>

\* fixupFrom returns and insert returns true.
Return(case) ==
  /\ pc' = "idle"
  /\ node' = Nil
  /\ ret' = "true"
  /\ lastCase' = case
  /\ UNCHANGED <<fault, freed, arg, wasIn, inserted, calls, splits>>

\* The call ends in a fault (a segmentation fault, or the runtime_error
\* leaving insert) and never returns to its caller.
Crash(status) ==
  /\ pc' = "crashed"
  /\ fault' = status
  /\ UNCHANGED <<node, ret, freed, arg, wasIn, inserted, calls, lastCase, splits>>

\* if (node->parent == nullptr) break;
FixupRoot ==
  /\ pc = "fixup"
  /\ nodes[node].parent = Nil
  /\ UNCHANGED <<nodes, root, ub>>
  /\ Return("root")

Fixup2Node ==
  /\ pc = "fixup"
  /\ nodes[node].parent # Nil
  /\ is2Node(nodes, node)
  /\ nodes' = recolor2Node(nodes, node)
  /\ UNCHANGED <<root, ub>>
  /\ Return("2node")

Fixup3NodeBlackParent ==
  /\ pc = "fixup"
  /\ nodes[node].parent # Nil
  /\ ~is2Node(nodes, node)
  /\ is3NodeBlackParent(nodes, node)
  /\ nodes' = recolor3NodeBlackParent(nodes, node)
  /\ UNCHANGED <<root, ub>>
  /\ Return("3black")

Fixup3NodeRedParent ==
  /\ pc = "fixup"
  /\ nodes[node].parent # Nil
  /\ ~is2Node(nodes, node)
  /\ ~is3NodeBlackParent(nodes, node)
  /\ is3NodeRedParent(nodes, node)
  /\ \E branch \in orientation(nodes, node) :
       \E o \in redParentOutcomes(nodes, root, node, branch) :
         /\ nodes' = o.h
         /\ root' = o.root
         /\ ub' = (ub \/ o.ub)
         /\ IF o.status = "ok" THEN Return(branch) ELSE Crash(o.status)

\* Fixup4Node without `node = grandparent`.
Fixup4NodeStays ==
  /\ pc = "fixup"
  /\ nodes[node].parent # Nil
  /\ ~is2Node(nodes, node)
  /\ ~is3NodeBlackParent(nodes, node)
  /\ ~is3NodeRedParent(nodes, node)
  /\ LET parent == nodes[node].parent
         aunt == siblingOf(nodes, parent)
     IN /\ aunt # Nil
        /\ nodes' = split4Node(nodes, node, parent, aunt)
        /\ splits' = splits + 1
        /\ UNCHANGED <<root, pc, node, ret, fault, ub, freed, arg, wasIn, inserted,
                       calls, lastCase>>

\* parent->color = BLACK; aunt->color = BLACK; node->color = RED;
\* node = grandparent. A write through a null aunt faults.
Fixup4Node ==
  /\ pc = "fixup"
  /\ nodes[node].parent # Nil
  /\ ~is2Node(nodes, node)
  /\ ~is3NodeBlackParent(nodes, node)
  /\ ~is3NodeRedParent(nodes, node)
  /\ LET parent == nodes[node].parent
         aunt == siblingOf(nodes, parent)
     IN IF aunt = Nil
        THEN /\ nodes' = [nodes EXCEPT ![parent].color = BLACK]
             /\ UNCHANGED root
             /\ ub' = TRUE
             /\ Crash("segv")
        ELSE /\ nodes' = split4Node(nodes, node, parent, aunt)
             /\ node' = nodes[parent].parent
             /\ splits' = splits + 1
             /\ UNCHANGED <<root, pc, ret, fault, ub, freed, arg, wasIn, inserted, calls,
                            lastCase>>

Next ==
  \/ \E key \in Keys : Insert(key)
  \/ FixupRoot
  \/ Fixup2Node
  \/ Fixup3NodeBlackParent
  \/ Fixup3NodeRedParent
  \/ Fixup4Node

Spec == Init /\ [][Next]_vars

\* ---- ~RedBlackTree ----
\* The destructor starts: the loop condition `root != nullptr` is tested.
DtorStart ==
  /\ pc = "idle"
  /\ pc' = IF root = Nil THEN "destroyed" ELSE "destroying"
  /\ UNCHANGED <<nodes, root, node, ret, fault, ub, freed, arg, wasIn, inserted,
                 calls, lastCase, splits>>

\* DtorDelete with `root = nullptr` instead of `root = next`.
DtorDeleteDropsRight ==
  /\ pc = "destroying"
  /\ root \notin freed
  /\ nodes[root].left = Nil
  /\ freed' = freed \cup {root}
  /\ root' = Nil
  /\ pc' = "destroyed"
  /\ UNCHANGED <<nodes, node, ret, fault, ub, arg, wasIn, inserted, calls,
                 lastCase, splits>>

\* Case 1: the root has no left child: delete it and go on with its right
\* child. Reading a deleted root is a use after free.
DtorDelete ==
  /\ pc = "destroying"
  /\ IF root \in freed
     THEN /\ pc' = "crashed"
          /\ fault' = "uaf"
          /\ UNCHANGED <<nodes, root, freed>>
     ELSE /\ nodes[root].left = Nil
          /\ freed' = freed \cup {root}
          /\ root' = nodes[root].right
          /\ pc' = IF nodes[root].right = Nil THEN "destroyed" ELSE "destroying"
          /\ UNCHANGED <<nodes, fault>>
  /\ UNCHANGED <<node, ret, ub, arg, wasIn, inserted, calls, lastCase, splits>>

\* Case 2: there is a left child: rotate it above the root. Reading a deleted
\* left child is a use after free.
DtorRotate ==
  /\ pc = "destroying"
  /\ root \notin freed
  /\ nodes[root].left # Nil
  /\ LET leftChild == nodes[root].left
     IN IF leftChild \in freed
        THEN /\ pc' = "crashed"
             /\ fault' = "uaf"
             /\ UNCHANGED <<nodes, root>>
        ELSE /\ nodes' = [nodes EXCEPT ![root].left = nodes[leftChild].right,
                                       ![leftChild].right = root]
             /\ root' = leftChild
             /\ UNCHANGED <<pc, fault>>
  /\ UNCHANGED <<node, ret, ub, freed, arg, wasIn, inserted, calls, lastCase, splits>>

\* Trees of up to MaxTeardownKey keys are built and then torn down.
NextTeardown ==
  \/ \E key \in 1..MaxTeardownKey : Insert(key)
  \/ FixupRoot
  \/ Fixup2Node
  \/ Fixup3NodeBlackParent
  \/ Fixup3NodeRedParent
  \/ Fixup4Node
  \/ DtorStart
  \/ DtorDelete
  \/ DtorRotate

SpecTeardown == Init /\ [][NextTeardown]_vars

\* ---- the tree reachable from root ----
RECURSIVE reach(_, _)
reach(h, n) == IF n = Nil THEN {} ELSE {n} \cup reach(h, h[n].left) \cup reach(h, h[n].right)

tree == reach(nodes, root)
sizeOf(n) == IF n = Nil THEN 0 ELSE nodes[n].size
returned == pc = "idle"

AllocFresh == DOMAIN nodes = tree \/ pc = "crashed"

\* ---- rankOf ----
\* The while loop of rankOf. Its third branch (neither key > current->key nor
\* key < current->key) cannot be taken: the loop condition excludes equality.
RECURSIVE rankOfLoop(_, _, _, _)
rankOfLoop(h, current, key, rank) ==
  IF current = Nil THEN rank
  ELSE IF h[current].key = key THEN rank
  ELSE IF key > h[current].key
       THEN rankOfLoop(h, h[current].right, key,
                       rank + (IF h[current].left # Nil THEN h[h[current].left].size ELSE 0) + 1)
       ELSE rankOfLoop(h, h[current].left, key, rank)

\* rankOf on a non-empty tree.
rankOf(h, r, key) ==
  LET rank0 == IF h[r].key = key /\ h[r].left # Nil THEN h[h[r].left].size ELSE 0
  IN rankOfLoop(h, r, key, rank0)

\* Outcomes of rankOf: on the empty tree `current->key` reads through a null
\* pointer, which faults or yields arbitrary values to compare and add.
rankOfOutcomes(h, r, key) ==
  IF r = Nil THEN {Segv, 0} \cup Garbage ELSE {rankOf(h, r, key)}

\* ---- select ----
\* What select can produce once it has read through a null pointer: a fault
\* or an arbitrary value.
nullReadOutcomes == {Segv} \cup Garbage

\* The while loop of select, ending in `return current->key`.
RECURSIVE selectLoop(_, _, _, _)
selectLoop(h, current, rank, currentRank) ==
  IF current = Nil THEN nullReadOutcomes            \* current->key, line 424
  ELSE IF rank > currentRank
       THEN LET next == h[current].right
            IN IF next = Nil THEN nullReadOutcomes  \* current->left, line 404
               ELSE IF h[next].left # Nil
                    THEN selectLoop(h, next, rank, currentRank + h[h[next].left].size + 1)
                    ELSE selectLoop(h, next, rank, currentRank)
  ELSE IF rank < currentRank
       THEN LET next == h[current].left
            IN IF next = Nil THEN nullReadOutcomes  \* current->left->size, line 411
               ELSE selectLoop(h, next, rank, h[next].size)
  ELSE {h[current].key}

\* Outcomes of select(rank).
selectOutcomes(h, r, rank) ==
  LET currentRank == IF r # Nil /\ h[r].left # Nil THEN h[h[r].left].size ELSE 0
  IN selectLoop(h, r, rank, currentRank)

\* ---- properties ----
keysOf(S) == {nodes[n].key : n \in S}
leftOf(n) == nodes[n].left
rightOf(n) == nodes[n].right

\* Black nodes counted on each path from n down to an absent-child position.
RECURSIVE blackCounts(_)
blackCounts(n) ==
  IF n = Nil THEN {0}
  ELSE {c + (IF nodes[n].color = BLACK THEN 1 ELSE 0) :
          c \in blackCounts(leftOf(n)) \cup blackCounts(rightOf(n))}

\* C1: after any sequence of insert calls (new keys and repeated keys) every
\* node n of the tree has size(n) = 1 + size(n.left) + size(n.right), an absent
\* child counting 0.
C1_SizeInvariant ==
  returned => \A n \in tree : nodes[n].size = 1 + sizeOf(leftOf(n)) + sizeOf(rightOf(n))

\* C2: after every insert call returns, no RED node has a RED child.
C2_NoRedRed ==
  returned =>
    \A n \in tree : nodes[n].color = RED =>
      \A c \in {leftOf(n), rightOf(n)} \ {Nil} : nodes[c].color = BLACK

\* an insert returned through the zig-zag case after at least one 4-node split
C2_Witness == returned /\ lastCase = "zigzag" /\ splits >= 1

\* C3: after every insert call returns, for every node all paths from it down
\* to an absent-child position contain the same number of BLACK nodes.
C3_BlackHeight ==
  returned => \A n \in tree : Cardinality(blackCounts(n)) = 1

\* an insert returned after 4-node splits reached the root: the black height
\* of the whole tree is 2 or more
C3_Witness ==
  returned /\ lastCase = "root" /\ splits >= 1 /\ \E c \in blackCounts(root) : c >= 2

\* C4: after every insert call returns, the root of a non-empty tree is BLACK.
C4_RootBlack ==
  returned /\ root # Nil => nodes[root].color = BLACK

\* an insert returned through a zig-zig rotation that made the parent of the
\* new node the root
C4_Witness ==
  returned /\ lastCase = "zigzig" /\ splits = 0 /\ arg \in tree /\ nodes[arg].parent = root

\* C5: after any sequence of insert calls, for every node all keys in its left
\* subtree are smaller than its key and all keys in its right subtree larger.
C5_BstOrder ==
  returned =>
    \A n \in tree :
      /\ \A k \in keysOf(reach(nodes, leftOf(n))) : k < nodes[n].key
      /\ \A k \in keysOf(reach(nodes, rightOf(n))) : k > nodes[n].key

\* an insert returned through a zig-zig rotation above the leaves, which moved
\* a non-empty middle subtree from the rotated node to its old parent
C5_Witness == returned /\ lastCase = "zigzig" /\ splits >= 1

\* C6: after every insert call returns, parent links are the exact inverse of
\* child links: an existing child of n has parent n, the root has no parent,
\* every other node is the left or right child of its parent, and every
\* allocated node is in the tree.
C6_ParentLinks ==
  returned =>
    /\ DOMAIN nodes = tree
    /\ root # Nil => nodes[root].parent = Nil
    /\ \A n \in tree :
         /\ leftOf(n) # Nil => nodes[leftOf(n)].parent = n
         /\ rightOf(n) # Nil => nodes[rightOf(n)].parent = n
         /\ n # root =>
              /\ nodes[n].parent \in tree
              /\ n \in {leftOf(nodes[n].parent), rightOf(nodes[n].parent)}

\* an insert returned through the zig-zag case on a fresh leaf, whose two
\* rotations made the new node the root
C6_Witness == returned /\ lastCase = "zigzag" /\ splits = 0 /\ root = arg

\* C7: after any sequence of insert calls on an initially empty tree,
\* contains(k) is true if and only if k was the argument of an earlier insert.
C7_Membership ==
  returned => \A k \in Keys : contains(k) <=> k \in inserted

\* an insert returned through a rotation, with keys inserted and keys never
\* inserted
C7_Witness ==
  /\ returned
  /\ lastCase \in {"zigzag", "zigzig"}
  /\ Cardinality(inserted) >= 3
  /\ inserted # Keys

\* C8: insert(key) returns true exactly when key was not in the tree before
\* the call, false exactly when it was, and key is in the tree afterwards.
C8_InsertResult ==
  returned /\ calls > 0 =>
    /\ ret = "true" <=> ~wasIn
    /\ ret = "false" <=> wasIn
    /\ contains(arg)

\* an insert of a key already present, below the root, returned false
C8_Witness == returned /\ ret = "false" /\ wasIn /\ arg \in tree /\ arg # root

\* C9: an insert call with a key already in the tree leaves the whole tree
\* state (shape, keys, colours, parent links, size counters) unchanged.
C9_DuplicateUnchanged ==
  [][(calls' = calls + 1 /\ wasIn') => (nodes' = nodes /\ root' = root)]_vars

\* C10: in a tree built by inserts of distinct keys, rankOf(k) of a present
\* key k is the number of keys in the tree strictly smaller than k.
C10_RankOf ==
  returned /\ dups = 0 =>
    \A n \in tree :
      rankOfOutcomes(nodes, root, nodes[n].key) =
        {Cardinality({k \in keysOf(tree) : k < nodes[n].key})}

\* The key of the tree that has exactly r smaller keys in the tree.
keysAtRank(r) == {k \in keysOf(tree) : Cardinality({j \in keysOf(tree) : j < k}) = r}

\* C11: in a tree of n >= 1 nodes built by inserts of distinct keys, select(r)
\* for 0 <= r < n returns the key that has exactly r smaller keys in the tree,
\* without reading a field of an absent node.
C11_Select ==
  returned /\ dups = 0 =>
    \A r \in 0..(Cardinality(tree) - 1) :
      selectOutcomes(nodes, root, r) = keysAtRank(r)

\* C12: in every tree of n nodes reachable by inserts, rankOf(select(r)) = r
\* for every r in 0..n-1 and select(rankOf(k)) = k for every key k present.
C12_RankSelectInverse ==
  returned =>
    /\ \A r \in 0..(Cardinality(tree) - 1) :
         \A k \in selectOutcomes(nodes, root, r) :
           k # Segv /\ rankOfOutcomes(nodes, root, k) = {r}
    /\ \A k \in keysOf(tree) :
         \A r \in rankOfOutcomes(nodes, root, k) :
           selectOutcomes(nodes, root, r) = {k}

\* C13: in any tree reachable by inserts, rankOf(a) < rankOf(b) for any two
\* present keys a < b.
C13_RankMonotone ==
  returned =>
    \A a, b \in keysOf(tree) :
      a < b => rankOf(nodes, root, a) < rankOf(nodes, root, b)

\* C14: every insert call runs to its return without reading or writing a
\* field of an absent node and without raising an error.
C14_InsertNoFault == fault = "none" /\ ~ub

\* C15: Fixup never calls rotateWithParent on a node that has no parent: the
\* "Rotating node with no parent?" error is never raised.
C15_NoRotateOnRoot == fault # "throw"

\* an insert returned through the zig-zag case on a fresh leaf whose second
\* rotation put the new node below the root
C15_Witness == returned /\ lastCase = "zigzag" /\ splits = 0 /\ arg \in tree /\ root # arg

\* The defined failures the callers of rankOf and select are promised.
NotFound == 0 - 2
OutOfRange == 0 - 3

\* C16: rankOf(k) with k not in the tree ends in a "not found" failure and
\* select(r) with r outside 0..n-1 ends in an "out of range" failure, on the
\* empty tree as on non-empty trees; neither reads a field of an absent node
\* nor returns an ordinary count or key.
C16_DefinedFailure ==
  returned =>
    /\ \A k \in Keys \ keysOf(tree) : rankOfOutcomes(nodes, root, k) = {NotFound}
    /\ \A r \in Cardinality(tree)..(Cardinality(tree) + 1) :
         selectOutcomes(nodes, root, r) = {OutOfRange}

\* size(n) = 1 + size(n.left) + size(n.right) in heap h, absent children
\* counting 0.
sizeConsistent(h, n) ==
  h[n].size = 1 + (IF h[n].left = Nil THEN 0 ELSE h[h[n].left].size)
                + (IF h[n].right = Nil THEN 0 ELSE h[h[n].right].size)

\* C17: rotateWithParent applied to a non-root node N of a tree whose size
\* counters are all consistent leaves N and its former parent with consistent
\* sizes, N's size equal to the former parent's old size, and every other
\* node's size unchanged.
C17_RotateSizes ==
  (pc \in {"idle", "fixup"} /\ \A m \in tree : sizeConsistent(nodes, m)) =>
    \A n \in tree \ {root} :
      \A o \in rotateWithParent(nodes, root, n) :
        LET oldParent == nodes[n].parent
        IN /\ o.status = "ok"
           /\ sizeConsistent(o.h, n)
           /\ sizeConsistent(o.h, oldParent)
           /\ o.h[n].size = nodes[oldParent].size
           /\ \A m \in tree \ {n, oldParent} : o.h[m].size = nodes[m].size

\* Number of parent links from n up to the root.
RECURSIVE depth(_, _)
depth(h, n) == IF h[n].parent = Nil THEN 0 ELSE 1 + depth(h, h[n].parent)

\* C18: the Fixup loop terminates: an iteration either ends the loop or (the
\* 4-node case) replaces the operating node by its grandparent, strictly
\* closer to the root; the loop ends when the operating node has no parent.
C18_FixupTerminates ==
  [][pc = "fixup" =>
       /\ nodes[node].parent = Nil => pc' = "idle"
       /\ \/ pc' # "fixup"
          \/ /\ nodes[node].parent # Nil
             /\ node' = nodes[nodes[node].parent].parent
             /\ node' # Nil
             /\ depth(nodes', node') < depth(nodes, node)]_vars

\* the loop goes on after a 4-node split, at a node that is not the root
C18_Witness == pc = "fixup" /\ splits >= 1 /\ nodes[node].parent # Nil

\* C20: in every iteration of Fixup, whenever the operating node's parent is
\* RED the grandparent is present, and whenever the 4-node branch is taken
\* the aunt is present and RED.
C20_RelativesExist ==
  (pc = "fixup" /\ nodes[node].parent # Nil) =>
    LET parent == nodes[node].parent
        grandparent == nodes[parent].parent
        aunt == siblingOf(nodes, parent)
    IN /\ nodes[parent].color = RED => grandparent # Nil
       /\ (~is2Node(nodes, node) /\ ~is3NodeBlackParent(nodes, node)
             /\ ~is3NodeRedParent(nodes, node))
          => (aunt # Nil /\ nodes[aunt].color = RED)

\* an iteration of Fixup about to take the 4-node branch
C20_Witness ==
  /\ pc = "fixup"
  /\ nodes[node].parent # Nil
  /\ nodes[nodes[node].parent].color = RED
  /\ ~is3NodeRedParent(nodes, node)

\* Number of nodes on the path from n along right links.
RECURSIVE rightSpine(_, _)
rightSpine(h, n) == IF n = Nil THEN 0 ELSE 1 + rightSpine(h, h[n].right)

\* Decreases with every iteration of the destructor's loop.
teardownMeasure(h, r) == 2 * Cardinality(reach(h, r)) - rightSpine(h, r)

\* C19: the destructor's loop ends with root absent after finitely many steps
\* (every iteration decreases teardownMeasure), having deleted each node of
\* the tree exactly once and never touching a deleted node.
C19_Teardown ==
  [][/\ pc = "destroying" =>
          /\ pc' \in {"destroying", "destroyed"}
          /\ teardownMeasure(nodes', root') < teardownMeasure(nodes, root)
          /\ root \notin freed
          /\ nodes[root].left \notin freed
          /\ freed \subseteq freed'
          /\ freed' \ freed \subseteq ({root} \ freed)
     /\ pc' = "destroyed" =>
          /\ root' = Nil
          /\ freed' = DOMAIN nodes'
          /\ fault' = "none"]_vars

\* the destructor has finished on a tree of MaxTeardownKey nodes
C19_Witness == pc = "destroyed" /\ Cardinality(freed) = MaxTeardownKey

====
